---- MODULE Spec2Model ----
(***************************************************************************)
(* A model of the gisutils line stitcher (vector.glue_lines_together) and  *)
(* of the raster index/coordinate conversions (raster.rowcol_to_xy,        *)
(* raster.xy_to_rowcol), of the line measures built on them                *)
(* (algo.average_slope, algo.compute_sinuosity), of the resampling of a    *)
(* polyline (vector.interpolate_coord, vector.line_to_point) and of the    *)
(* transects drawn from a center line (vector.draw_ortho_line_to_bank),    *)
(* and of the context managers of mapping.py and mapping/core.py.          *)
(***************************************************************************)
EXTENDS Integers, Sequences, FiniteSets, TLC

\* State of a call of vector.glue_lines_together
VARIABLES gdf, seed_id, max_tries_arg, max_tries, line, extra_geoms, tries,
          success, pc, err, nfound

\* State of the calls of raster.rowcol_to_xy and raster.xy_to_rowcol
VARIABLES r_affine, r_rows, r_cols, r_x, r_y, r_rowcol, rpc

gvars == <<gdf, seed_id, max_tries_arg, max_tries, line, extra_geoms, tries,
           success, pc, err, nfound>>

rvars == <<r_affine, r_rows, r_cols, r_x, r_y, r_rowcol, rpc>>

\* State of a call of algo.average_slope or algo.compute_sinuosity
VARIABLES a_line, a_dem, a_affine, a_absolute, a_as_pct, a_out, apc

avars == <<a_line, a_dem, a_affine, a_absolute, a_as_pct, a_out, apc>>

\* State of a call of vector.interpolate_coord
VARIABLES i_x, i_y, i_step, i_out, ipc

ivars == <<i_x, i_y, i_step, i_out, ipc>>

\* State of a call of vector.line_to_point
VARIABLES l_line, l_interval, l_d, l_out, lpc

lvars == <<l_line, l_interval, l_d, l_out, lpc>>

\* State of a call of vector.draw_ortho_line_to_bank
VARIABLES o_pts, o_bearing, o_bank, o_step, o_buffer, o_max_dist, o_i,
          o_dist, o_end1, o_end2, o_out, opc

ovars == <<o_pts, o_bearing, o_bank, o_step, o_buffer, o_max_dist, o_i,
           o_dist, o_end1, o_end2, o_out, opc>>

\* State of a with-block of one of the context managers of mapping.py and
\* mapping/core.py: the arcpy environment, the calls made to arcpy's license
\* functions, the manager's saved value
VARIABLES m_kind, m_arg, overwriteOutput, workspace, m_available, m_calls,
          m_orig, m_baseline, m_exc, mpc

mvars == <<m_kind, m_arg, overwriteOutput, workspace, m_available, m_calls,
           m_orig, m_baseline, m_exc, mpc>>

vars == <<gvars, rvars, avars, ivars, lvars, ovars, mvars>>

\* No call of the functions of a group is under way.
GlueIdle ==
    /\ gdf = <<>> /\ seed_id = -1 /\ max_tries_arg = -1 /\ max_tries = -1
    /\ line = <<>> /\ extra_geoms = <<>> /\ tries = 0 /\ success = 0
    /\ pc = "idle" /\ err = "none" /\ nfound = -1

RasterIdle ==
    /\ r_affine = <<>> /\ r_rows = <<>> /\ r_cols = <<>>
    /\ r_x = <<>> /\ r_y = <<>> /\ r_rowcol = <<>> /\ rpc = "idle"

AlgoIdle ==
    /\ a_line = <<>> /\ a_dem = <<>> /\ a_affine = <<>>
    /\ a_absolute = "omitted" /\ a_as_pct = "omitted" /\ a_out = <<>>
    /\ apc = "idle"

InterpIdle ==
    /\ i_x = <<>> /\ i_y = <<>> /\ i_step = 0 /\ i_out = <<>> /\ ipc = "idle"

PointIdle ==
    /\ l_line = <<>> /\ l_interval = <<>> /\ l_d = <<>> /\ l_out = <<>>
    /\ lpc = "idle"

OrthoIdle ==
    /\ o_pts = <<>> /\ o_bearing = <<>> /\ o_bank = <<>> /\ o_step = <<>>
    /\ o_buffer = <<>> /\ o_max_dist = 0 /\ o_i = -1 /\ o_dist = 0
    /\ o_end1 = <<>> /\ o_end2 = <<>> /\ o_out = <<>> /\ opc = "idle"

ManagerIdle ==
    /\ m_kind = "none" /\ m_arg = "" /\ overwriteOutput = FALSE
    /\ workspace = "" /\ m_available = {} /\ m_calls = <<>> /\ m_orig = <<>>
    /\ m_baseline = <<>> /\ m_exc = "none" /\ mpc = "idle"

(***************************************************************************)
(* Bounds of the explored inputs.                                          *)
(***************************************************************************)
NumGeoms == 7
MaxSegs == 3
MaxTriesArg == 1

\* The argument value None (max_tries=None, no count yet).
None == -1

\* The two-vertex LineStrings (possibly of zero length) the segment
\* collections are drawn from; the first NumGeoms are used.
GeomPool == <<
    << <<1, 2>>, <<0, 0>> >>, << <<2, 0>>, <<1, 2>> >>,
    << <<1, 0>>, <<1, 1>> >>, << <<0, 0>>, <<1, 0>> >>,
    << <<1, 0>>, <<2, 0>> >>, << <<1, 1>>, <<1, 1>> >>,
    << <<0, 0>>, <<2, 0>> >>, << <<1, 0>>, <<0, 0>> >>,
    << <<1, 1>>, <<1, 2>> >>, << <<2, 0>>, <<2, 2>> >> >>

Geoms == {GeomPool[i] : i \in 1..NumGeoms}

(***************************************************************************)
(* Planar geometry: the DE-9IM `touches` predicate between line strings.   *)
(***************************************************************************)
Min(a, b) == IF a <= b THEN a ELSE b
Max(a, b) == IF a >= b THEN a ELSE b

Cross(o, a, b) == (a[1] - o[1]) * (b[2] - o[2]) - (a[2] - o[2]) * (b[1] - o[1])

\* x lies on the closed segment a-b
OnSeg(x, a, b) ==
    /\ Cross(a, b, x) = 0
    /\ Min(a[1], b[1]) <= x[1] /\ x[1] <= Max(a[1], b[1])
    /\ Min(a[2], b[2]) <= x[2] /\ x[2] <= Max(a[2], b[2])

Edges(g) == {<<g[i], g[i + 1]>> : i \in 1..(Len(g) - 1)}

\* Boundary of a LineString: its two end points, or nothing when closed.
Boundary(g) == IF g[1] = g[Len(g)] THEN {} ELSE {g[1], g[Len(g)]}

\* The closed edges e1 and e2 share at least one point.
EdgesIntersect(e1, e2) ==
    LET p == e1[1]  q == e1[2]  a == e2[1]  b == e2[2]
        d1 == Cross(a, b, p)  d2 == Cross(a, b, q)
        d3 == Cross(p, q, a)  d4 == Cross(p, q, b)
    IN  \/ (d1 * d2 < 0 /\ d3 * d4 < 0)
        \/ OnSeg(p, a, b) \/ OnSeg(q, a, b)
        \/ OnSeg(a, p, q) \/ OnSeg(b, p, q)

\* The edges are collinear and overlap along a stretch of positive length.
EdgesOverlap(e1, e2) ==
    LET p == e1[1]  q == e1[2]  a == e2[1]  b == e2[2]
        k == IF p[1] # q[1] THEN 1 ELSE 2
        lo == Max(Min(p[k], q[k]), Min(a[k], b[k]))
        hi == Min(Max(p[k], q[k]), Max(a[k], b[k]))
    IN  /\ p # q /\ a # b
        /\ Cross(p, q, a) = 0 /\ Cross(p, q, b) = 0
        /\ lo < hi

\* Some common point of the two edges is a boundary point of neither geometry.
InteriorsMeet(e1, e2, bd) ==
    \/ EdgesOverlap(e1, e2)
    \/ /\ EdgesIntersect(e1, e2)
       /\ ~ \E F \in bd : OnSeg(F, e1[1], e1[2]) /\ OnSeg(F, e2[1], e2[2])

Intersects(g, l) ==
    \E e1 \in Edges(g), e2 \in Edges(l) : EdgesIntersect(e1, e2)

\* g.touches(l): the geometries share a point, their interiors share none.
Touches(g, l) ==
    /\ Intersects(g, l)
    /\ ~ \E e1 \in Edges(g), e2 \in Edges(l) :
            InteriorsMeet(e1, e2, Boundary(g) \cup Boundary(l))

(***************************************************************************)
(* vector.glue_lines_together                                              *)
(***************************************************************************)
Ids(rows) == {rows[i].id : i \in 1..Len(rows)}

\* Faulty variant: the labelled row stays in the frame.
Drop_keep(rows, label) == rows

\* DataFrame.drop(label, axis='index')
Drop(rows, label) ==
    LET keep(r) == r.id # label IN SelectSeq(rows, keep)

\* geoms.loc[seed_id, geom_col]
Loc(rows, label) ==
    rows[CHOOSE i \in 1..Len(rows) : rows[i].id = label].geometry

\* Faulty variant: keeps only the first touching row instead of all of them.
NextGeom_first(rows, l) ==
    LET hit(r) == Touches(r.geometry, l)
        all == SelectSeq(rows, hit)
    IN  IF Len(all) > 1 THEN SubSeq(all, 1, 1) ELSE all

\* Faulty variant: keeps only the last touching row instead of all of them.
NextGeom_last(rows, l) ==
    LET hit(r) == Touches(r.geometry, l)
        all == SelectSeq(rows, hit)
    IN  IF Len(all) > 1 THEN SubSeq(all, Len(all), Len(all)) ELSE all

\* extra_geoms.loc[extra_geoms.touches(line), 'geometry']
NextGeom(rows, l) ==
    LET hit(r) == Touches(r.geometry, l) IN SelectSeq(rows, hit)

\* max_tries defaults to twice the number of rows
DefaultTries(rows, arg) == IF arg = None THEN Len(rows) * 2 ELSE arg

\* Faulty variant: drops the first vertex of the segment when it repeats the line's last.
Concat_dedup(l, g) == IF g[1] = l[Len(l)] THEN l \o Tail(g) ELSE l \o g

\* LineString of the coordinates of the line followed by those of the segment
Concat(l, g) == l \o g

\* Faulty variant: the loop stops while one segment is still unattached.
LoopCond_rows(rows, t, mt) == Len(rows) > 1 /\ t < mt

\* Faulty variant: the loop makes one attempt more than the budget.
LoopCond_tries(rows, t, mt) == Len(rows) > 0 /\ t <= mt

\* while extra_geoms.shape[0] > 0 and tries < max_tries
LoopCond(rows, t, mt) == Len(rows) > 0 /\ t < mt

Init ==
    /\ \E n \in 0..MaxSegs :
         /\ \E gs \in [1..n -> Geoms] :
              gdf = [i \in 1..n |-> [id |-> i, geometry |-> gs[i]]]
         /\ seed_id \in 1..(n + 1)
    /\ max_tries_arg \in {None} \cup 0..MaxTriesArg
    /\ max_tries = None
    /\ line = <<>>
    /\ extra_geoms = <<>>
    /\ tries = 0
    /\ success = 0
    /\ pc = "start"
    /\ err = "none"
    /\ nfound = None
    /\ r_affine = <<>> /\ r_rows = <<>> /\ r_cols = <<>>
    /\ r_x = <<>> /\ r_y = <<>> /\ r_rowcol = <<>> /\ rpc = "idle"
    /\ AlgoIdle /\ InterpIdle /\ PointIdle /\ OrthoIdle /\ ManagerIdle

\* Lines 181-192: the budget, the seed's geometry, the other segments.
\* geoms.loc raises KeyError for a label that is not in the index.
StartOk ==
    /\ pc = "start"
    /\ seed_id \in Ids(gdf)
    /\ max_tries' = DefaultTries(gdf, max_tries_arg)
    /\ line' = Loc(gdf, seed_id)
    /\ extra_geoms' = Drop(gdf, seed_id)
    /\ pc' = "loop"
    /\ UNCHANGED <<gdf, seed_id, max_tries_arg, tries, success, err, nfound>>
    /\ UNCHANGED <<rvars, avars, ivars, lvars, ovars, mvars>>

\* Faulty variant: an unknown seed is not reported; the loop starts without a line.
StartKeyError_silent ==
    /\ pc = "start"
    /\ seed_id \notin Ids(gdf)
    /\ max_tries' = DefaultTries(gdf, max_tries_arg)
    /\ extra_geoms' = gdf
    /\ pc' = "loop"
    /\ UNCHANGED <<gdf, seed_id, max_tries_arg, line, tries, success, err,
                   nfound>>
    /\ UNCHANGED <<rvars, avars, ivars, lvars, ovars, mvars>>

StartKeyError ==
    /\ pc = "start"
    /\ seed_id \notin Ids(gdf)
    /\ max_tries' = DefaultTries(gdf, max_tries_arg)
    /\ pc' = "raised"
    /\ err' = "KeyError"
    /\ UNCHANGED <<gdf, seed_id, max_tries_arg, line, extra_geoms, tries,
                   success, nfound>>
    /\ UNCHANGED <<rvars, avars, ivars, lvars, ovars, mvars>>

\* Lines 193-199: one pass of the loop that does not find exactly one segment.
IterateRaise ==
    /\ pc = "loop"
    /\ LoopCond(extra_geoms, tries, max_tries)
    /\ LET next_geom == NextGeom(extra_geoms, line) IN
         /\ Len(next_geom) # 1
         /\ nfound' = Len(next_geom)
    /\ tries' = tries + 1
    /\ pc' = "raised"
    /\ err' = "ValueError"
    /\ UNCHANGED <<gdf, seed_id, max_tries_arg, max_tries, line, extra_geoms,
                   success>>
    /\ UNCHANGED <<rvars, avars, ivars, lvars, ovars, mvars>>

\* Lines 193-208: one pass of the loop that attaches the one touching segment.
IterateAttach ==
    /\ pc = "loop"
    /\ LoopCond(extra_geoms, tries, max_tries)
    /\ LET next_geom == NextGeom(extra_geoms, line) IN
         /\ Len(next_geom) = 1
         /\ line' = Concat(line, next_geom[1].geometry)
         /\ extra_geoms' = Drop(extra_geoms, next_geom[1].id)
    /\ tries' = tries + 1
    /\ success' = success + 1
    /\ UNCHANGED <<gdf, seed_id, max_tries_arg, max_tries, pc, err, nfound>>
    /\ UNCHANGED <<rvars, avars, ivars, lvars, ovars, mvars>>

\* Line 210: return line, extra_geoms
Return ==
    /\ pc = "loop"
    /\ ~ LoopCond(extra_geoms, tries, max_tries)
    /\ pc' = "returned"
    /\ UNCHANGED <<gdf, seed_id, max_tries_arg, max_tries, line, extra_geoms,
                   tries, success, err, nfound>>
    /\ UNCHANGED <<rvars, avars, ivars, lvars, ovars, mvars>>

Next == StartOk \/ StartKeyError \/ IterateRaise \/ IterateAttach \/ Return

Spec == Init /\ [][Next]_vars

(***************************************************************************)
(* The whole call as a function of its arguments.                          *)
(***************************************************************************)
RECURSIVE GlueLoop(_, _, _, _)
GlueLoop(l, rows, t, mt) ==
    IF ~ LoopCond(rows, t, mt)
    THEN [kind |-> "returned", line |-> l, extra |-> Ids(rows), nfound |-> None]
    ELSE LET next_geom == NextGeom(rows, l) IN
         IF Len(next_geom) # 1
         THEN [kind |-> "ValueError", line |-> <<>>, extra |-> {},
               nfound |-> Len(next_geom)]
         ELSE GlueLoop(Concat(l, next_geom[1].geometry),
                       Drop(rows, next_geom[1].id), t + 1, mt)

glue_lines_together(rows, seed, arg) ==
    IF seed \notin Ids(rows)
    THEN [kind |-> "KeyError", line |-> <<>>, extra |-> {}, nfound |-> None]
    ELSE GlueLoop(Loc(rows, seed), Drop(rows, seed), 0, DefaultTries(rows, arg))

(***************************************************************************)
(* Properties of glue_lines_together                                       *)
(***************************************************************************)
Terminal == pc \in {"returned", "raised"}

NonSeed == Ids(gdf) \ {seed_id}

\* Every order in which the segments other than the seed can be listed.
Orders ==
    LET n == Cardinality(NonSeed)
    IN  {o \in [1..n -> NonSeed] : \A i, j \in 1..n : o[i] = o[j] => i = j}

\* The seed's coordinates followed by those of the first k segments of o.
RECURSIVE Glued(_, _)
Glued(o, k) ==
    IF k = 0 THEN Loc(gdf, seed_id) ELSE Glued(o, k - 1) \o Loc(gdf, o[k])

\* At every step, o[k] is the only remaining segment touching the line so far.
IsChainOrder(o) ==
    \A k \in 1..Len(o) :
        {i \in NonSeed \ {o[j] : j \in 1..(k - 1)} :
            Touches(Loc(gdf, i), Glued(o, k - 1))} = {o[k]}

EnoughTries == max_tries_arg = None \/ max_tries_arg >= Len(gdf) - 1

Touching == {i \in 1..Len(extra_geoms) : Touches(extra_geoms[i].geometry, line)}

InLoop == pc = "loop" /\ LoopCond(extra_geoms, tries, max_tries)

\* C2: when segments remain and none of them touches the line built so
\* far, the loop stops and the call returns the line built so far with all
\* remaining segments as the residual, without raising.
C2_GapReturnsResidual ==
    [][(InLoop /\ Touching = {}) =>
          (pc' # "raised" /\ err' = "none" /\ line' = line
           /\ extra_geoms' = extra_geoms)]_vars

\* C3: when more than one remaining segment touches the line built so far,
\* the call fails with ValueError naming the number of candidates, and no
\* line or residual is returned.
C3_AmbiguousRaises ==
    [][(InLoop /\ Cardinality(Touching) > 1) =>
          (pc' = "raised" /\ err' = "ValueError"
           /\ nfound' = Cardinality(Touching))]_vars

C3_Witness ==
    /\ pc = "raised"
    /\ err = "ValueError"
    /\ nfound > 1
    /\ Cardinality(Touching) = nfound

\* Segment i shares no point with any other segment of the collection.
IsolatedSeg(i) ==
    \A j \in Ids(gdf) \ {i} : ~ Intersects(Loc(gdf, i), Loc(gdf, j))

\* The straight edges the concatenation can insert: from the last vertex of
\* one segment to the first vertex of another, segment i taking no part.
ConnectingEdges(i) ==
    {<<Loc(gdf, j)[Len(Loc(gdf, j))], Loc(gdf, k)[1]>> :
        <<j, k>> \in {jk \in (Ids(gdf) \ {i}) \X (Ids(gdf) \ {i}) : jk[1] # jk[2]}}

Apart(i) ==
    /\ IsolatedSeg(i)
    /\ \A e \in ConnectingEdges(i) : ~ Intersects(Loc(gdf, i), e)

DefaultCall == seed_id \in Ids(gdf) /\ max_tries_arg = None

C5_Budget ==
    /\ [](pc # "start" =>
            /\ tries <= max_tries
            /\ (max_tries_arg = None => max_tries = 2 * Len(gdf))
            /\ (max_tries_arg # None => max_tries = max_tries_arg))
    /\ [][(pc = "loop" /\ tries = max_tries /\ extra_geoms # <<>>) =>
            (pc' = "returned" /\ err' = "none" /\ line' = line
             /\ extra_geoms' = extra_geoms /\ tries' = tries)]_vars

C5_Witness ==
    /\ pc = "returned"
    /\ tries = max_tries
    /\ tries = 1
    /\ success = 1
    /\ Len(extra_geoms) = 1

\* What the call handed back to its caller.
Observed ==
    [kind |-> IF pc = "returned" THEN "returned" ELSE err,
     line |-> IF pc = "returned" THEN line ELSE <<>>,
     extra |-> IF pc = "returned" THEN Ids(extra_geoms) ELSE {},
     nfound |-> nfound]

Permuted(f) == [i \in 1..Len(gdf) |-> gdf[f[i]]]

C7_BadSeedFails ==
    (pc # "start" /\ (Len(gdf) = 0 \/ seed_id \notin Ids(gdf))) =>
        /\ pc = "raised"
        /\ err = "KeyError"
        /\ tries = 0
        /\ success = 0
        /\ line = <<>>

C7_Witness ==
    /\ pc = "raised"
    /\ err = "KeyError"
    /\ Len(gdf) = 0
    /\ tries = 0

(***************************************************************************)
(* Binary floating point: a number is m * 2^e, an operation returns the    *)
(* exact result rounded to the nearest number of Precision significant     *)
(* bits, ties to even (the rounding of float64, at a reduced width).       *)
(***************************************************************************)
Precision == 5

Abs(n) == IF n < 0 THEN -n ELSE n

Sign(n) == IF n < 0 THEN -1 ELSE 1

RECURSIVE BitLen(_)
BitLen(n) == IF n = 0 THEN 0 ELSE 1 + BitLen(n \div 2)

\* The canonical form: an odd significand, or zero.
RECURSIVE Norm(_, _)
Norm(m, e) ==
    IF m = 0 THEN [m |-> 0, e |-> 0]
    ELSE IF m % 2 = 0 THEN Norm(m \div 2, e + 1)
    ELSE [m |-> m, e |-> e]

\* m * 2^e rounded to Precision significant bits, ties to even.
Round(m, e) ==
    LET a == Abs(m)
        k == BitLen(a) - Precision
    IN  IF k <= 0 THEN Norm(m, e)
        ELSE LET q == a \div (2 ^ k)
                 r == a % (2 ^ k)
                 half == 2 ^ (k - 1)
                 up == r > half \/ (r = half /\ q % 2 = 1)
             IN  Norm(Sign(m) * (IF up THEN q + 1 ELSE q), e + k)

FromInt(n) == Round(n, 0)

FNeg(a) == [m |-> -a.m, e |-> a.e]

FMul(a, b) == Round(a.m * b.m, a.e + b.e)

FAdd(a, b) ==
    LET e == Min(a.e, b.e)
    IN  Round(a.m * (2 ^ (a.e - e)) + b.m * (2 ^ (b.e - e)), e)

FSub(a, b) == FAdd(a, FNeg(b))

\* a / b for b # 0: the quotient to Precision + 2 bits and a sticky bit.
FDiv(a, b) ==
    LET d == Abs(b.m)
        s == Precision + 2 + BitLen(d)
        n == Abs(a.m) * (2 ^ s)
        q == n \div d
        sticky == IF n % d = 0 THEN 0 ELSE 1
    IN  Round(Sign(a.m) * Sign(b.m) * (2 * q + sticky), a.e - b.e - s - 1)

\* Faulty variant: rounds to the nearest integral float (halves upward).
FFloor_round(a) ==
    IF a.e >= 0 THEN a ELSE Norm((2 * a.m + 2 ^ (0 - a.e)) \div (2 ^ (1 - a.e)), 0)

\* Faulty variant: the integer strictly below an integral value (ceil(a) - 1).
FFloor_below(a) ==
    IF a.e >= 0 THEN Round(a.m * (2 ^ a.e) - 1, 0)
    ELSE Norm(a.m \div (2 ^ (0 - a.e)), 0)

\* numpy.floor: the largest integral float not above a
FFloor(a) ==
    IF a.e >= 0 THEN a ELSE Norm(a.m \div (2 ^ (0 - a.e)), 0)

\* ndarray.astype(int): the integer part, truncated toward zero
AsInt(a) ==
    IF a.e >= 0 THEN a.m * (2 ^ a.e)
    ELSE Sign(a.m) * (Abs(a.m) \div (2 ^ (0 - a.e)))

\* An entry of numpy.ones_like(rows)
One == FromInt(1)

\* The largest integer whose square is at most n
RECURSIVE Isqrt(_)
Isqrt(n) ==
    IF n < 2 THEN n
    ELSE LET r == 2 * Isqrt(n \div 4)
         IN  IF (r + 1) * (r + 1) <= n THEN r + 1 ELSE r

\* The square root of a >= 0: the root to Precision + 1 bits or more and a
\* sticky bit, rounded.
FSqrt(a) ==
    LET odd == a.e % 2 = 1
        m == IF odd THEN 2 * a.m ELSE a.m
        e == IF odd THEN a.e - 1 ELSE a.e
        s == Precision + 1
        n == m * (2 ^ (2 * s))
        q == Isqrt(n)
        sticky == IF q * q = n THEN 0 ELSE 1
    IN  Round(2 * q + sticky, (e \div 2) - s - 1)

\* The values of float64 that are not numbers m * 2^e: the infinities and
\* NaN, told apart from the numbers by an exponent no number has.
PosInf == [m |-> 1, e |-> 2 ^ 10]

NegInf == [m |-> -1, e |-> 2 ^ 10]

NaN == [m |-> 0, e |-> 2 ^ 10]

IsFinite(a) == a.e # 2 ^ 10

IsNaN(a) == a = NaN

\* Faulty variant: 0 / 0 is an infinity too.
NpDiv_inf(a, b) ==
    IF IsNaN(a) \/ IsNaN(b) THEN NaN
    ELSE IF ~ IsFinite(b) THEN (IF IsFinite(a) THEN Norm(0, 0) ELSE NaN)
    ELSE IF ~ IsFinite(a) THEN (IF a.m * Sign(b.m) > 0 THEN PosInf ELSE NegInf)
    ELSE IF b.m = 0 THEN (IF a.m >= 0 THEN PosInf ELSE NegInf)
    ELSE FDiv(a, b)

\* numpy true division: x / 0 is an infinity, 0 / 0 is NaN, no exception
NpDiv(a, b) ==
    IF IsNaN(a) \/ IsNaN(b) THEN NaN
    ELSE IF ~ IsFinite(b) THEN (IF IsFinite(a) THEN Norm(0, 0) ELSE NaN)
    ELSE IF ~ IsFinite(a) THEN (IF a.m * Sign(b.m) > 0 THEN PosInf ELSE NegInf)
    ELSE IF b.m = 0
         THEN (IF a.m = 0 THEN NaN ELSE IF a.m > 0 THEN PosInf ELSE NegInf)
    ELSE FDiv(a, b)

\* numpy multiplication
NpMul(a, b) ==
    IF IsNaN(a) \/ IsNaN(b) THEN NaN
    ELSE IF IsFinite(a) /\ IsFinite(b) THEN FMul(a, b)
    ELSE IF a.m = 0 \/ b.m = 0 THEN NaN
    ELSE IF Sign(a.m) * Sign(b.m) > 0 THEN PosInf ELSE NegInf

\* numpy.abs
NpAbs(a) == [m |-> Abs(a.m), e |-> a.e]

\* The comparison == of two floats: NaN equals nothing, itself included.
NpEq(a, b) == ~ IsNaN(a) /\ ~ IsNaN(b) /\ a = b

\* The comparison <= of two floats
NpLeq(a, b) ==
    IF IsNaN(a) \/ IsNaN(b) THEN FALSE
    ELSE IF a = b THEN TRUE
    ELSE IF ~ IsFinite(a) THEN a = NegInf
    ELSE IF ~ IsFinite(b) THEN b = PosInf
    ELSE LET lo == Min(a.e, b.e)
         IN  a.m * (2 ^ (a.e - lo)) <= b.m * (2 ^ (b.e - lo))

(***************************************************************************)
(* raster.rowcol_to_xy and raster.xy_to_rowcol                             *)
(***************************************************************************)
CoefMax == 2
PixMax == 1
CoordMax == 2

\* An argument is a scalar or a one-dimensional array.
Scalar(v) == [kind |-> "scalar", val |-> v]
Vector(v) == [kind |-> "vector", val |-> v]

\* Multiples of one half
Halves(n) == {Norm(m, -1) : m \in (0 - n)..n}

\* The six coefficients (a, b, c, d, e, f) of an affine.Affine
Affines ==
    {<<a, b, c, d, e, f>> :
        a \in Halves(CoefMax), b \in Halves(1), c \in Halves(1),
        d \in Halves(1), e \in Halves(CoefMax), f \in Halves(1)}

\* validate.is_vector: a scalar becomes an array of one element
is_vector(v) == IF v.kind = "scalar" THEN <<v.val>> ELSE v.val

\* Affine.determinant
Determinant(A) == FSub(FMul(A[1], A[5]), FMul(A[2], A[4]))

\* Affine.is_degenerate
IsDegenerate(A) == Determinant(A).m = 0

\* ~Affine(a, b, c, d, e, f)
Invert(A) ==
    LET idet == FDiv(One, Determinant(A))
        ra == FMul(A[5], idet)
        rb == FMul(FNeg(A[2]), idet)
        rd == FMul(FNeg(A[4]), idet)
        re == FMul(A[1], idet)
    IN  <<ra, rb, FSub(FMul(FNeg(A[3]), ra), FMul(A[6], rb)),
          rd, re, FSub(FMul(FNeg(A[3]), rd), FMul(A[6], re))>>

\* One entry of numpy.dot(aff_array, vector): p * u + q * v + r * 1
Dot3(p, q, r, u, v) ==
    FAdd(FAdd(FMul(p, u), FMul(q, v)), FMul(r, One))

\* Faulty variant: the vector is built as (rows, cols, 1) instead of (cols, rows, 1).
rowcol_to_xy_swapped(rows, cols, A) ==
    LET rs == is_vector(rows)
        cs == is_vector(cols)
    IN  << [i \in 1..Len(rs) |-> Dot3(A[1], A[2], A[3], rs[i], cs[i])],
           [i \in 1..Len(rs) |-> Dot3(A[4], A[5], A[6], rs[i], cs[i])] >>

rowcol_to_xy(rows, cols, A) ==
    LET rs == is_vector(rows)
        cs == is_vector(cols)
    IN  << [i \in 1..Len(rs) |-> Dot3(A[1], A[2], A[3], cs[i], rs[i])],
           [i \in 1..Len(rs) |-> Dot3(A[4], A[5], A[6], cs[i], rs[i])] >>

\* The real-valued (column, row) of the coordinates: rowcol_to_xy(y, x, ~affine)
RealIndex(xx, yy, A) == rowcol_to_xy(yy, xx, Invert(A))

\* numpy.floor(...).astype(int)[::-1]
xy_to_rowcol(xx, yy, A) ==
    LET yx == RealIndex(xx, yy, A)
    IN  << [i \in 1..Len(yx[2]) |-> AsInt(FFloor(yx[2][i]))],
           [i \in 1..Len(yx[1]) |-> AsInt(FFloor(yx[1][i]))] >>

RInit ==
    /\ r_affine \in Affines
    /\ \/ /\ r_rows \in {Scalar(FromInt(n)) : n \in (0 - PixMax)..PixMax}
          /\ r_cols \in {Scalar(FromInt(n)) : n \in (0 - PixMax)..PixMax}
          /\ r_x = <<>> /\ r_y = <<>>
          /\ rpc = "pixels"
       \/ /\ r_x \in {Scalar(v) : v \in Halves(CoordMax)}
          /\ r_y \in {Scalar(v) : v \in Halves(CoordMax)}
          /\ r_rows = <<>> /\ r_cols = <<>>
          /\ rpc = "coords"
    /\ r_rowcol = <<>>
    /\ gdf = <<>> /\ seed_id = None /\ max_tries_arg = None /\ max_tries = None
    /\ line = <<>> /\ extra_geoms = <<>> /\ tries = 0 /\ success = 0
    /\ pc = "idle" /\ err = "none" /\ nfound = None
    /\ AlgoIdle /\ InterpIdle /\ PointIdle /\ OrthoIdle /\ ManagerIdle

\* x, y = rowcol_to_xy(rows, cols, affine)
RowcolToXy ==
    /\ rpc = "pixels"
    /\ LET xy == rowcol_to_xy(r_rows, r_cols, r_affine) IN
         /\ r_x' = Vector(xy[1])
         /\ r_y' = Vector(xy[2])
    /\ rpc' = "coords"
    /\ UNCHANGED <<r_affine, r_rows, r_cols, r_rowcol>>
    /\ UNCHANGED <<gvars, avars, ivars, lvars, ovars, mvars>>

\* rowcol = xy_to_rowcol(x, y, affine)
XyToRowcol ==
    /\ rpc = "coords"
    /\ ~ IsDegenerate(r_affine)
    /\ r_rowcol' = xy_to_rowcol(r_x, r_y, r_affine)
    /\ rpc' = "indices"
    /\ UNCHANGED <<r_affine, r_rows, r_cols, r_x, r_y>>
    /\ UNCHANGED <<gvars, avars, ivars, lvars, ovars, mvars>>

\* Faulty variant: a degenerate transform yields the index pair (0, 0).
XyToRowcolError_zero ==
    /\ rpc = "coords"
    /\ IsDegenerate(r_affine)
    /\ r_rowcol' = << <<0>>, <<0>> >>
    /\ rpc' = "indices"
    /\ UNCHANGED <<r_affine, r_rows, r_cols, r_x, r_y>>
    /\ UNCHANGED <<gvars, avars, ivars, lvars, ovars, mvars>>

\* ~Affine(...) raises TransformNotInvertibleError for a degenerate transform
XyToRowcolError ==
    /\ rpc = "coords"
    /\ IsDegenerate(r_affine)
    /\ rpc' = "raised"
    /\ UNCHANGED <<r_affine, r_rows, r_cols, r_x, r_y, r_rowcol>>
    /\ UNCHANGED <<gvars, avars, ivars, lvars, ovars, mvars>>

RNext == RowcolToXy \/ XyToRowcol \/ XyToRowcolError

RasterSpec == RInit /\ [][RNext]_vars

(***************************************************************************)
(* Properties of the raster conversions                                    *)
(***************************************************************************)
\* C8: xy_to_rowcol of the (x, y) that rowcol_to_xy returns for integers
\* (row, col), with the same affine, is exactly (row, col).
C8_RoundTrip ==
    (rpc = "indices" /\ r_rows # <<>>) =>
        r_rowcol = << <<AsInt(r_rows.val)>>, <<AsInt(r_cols.val)>> >>

\* The real-valued column and row index of the i-th coordinate pair: the
\* inverse of the affine applied to (x, y, 1).
ColReal(i) ==
    LET inv == Invert(r_affine)
    IN  Dot3(inv[1], inv[2], inv[3], is_vector(r_x)[i], is_vector(r_y)[i])

RowReal(i) ==
    LET inv == Invert(r_affine)
    IN  Dot3(inv[4], inv[5], inv[6], is_vector(r_x)[i], is_vector(r_y)[i])

\* n <= a < n + 1 for the integer n and the number a
IsFloorOf(n, a) ==
    IF a.e >= 0
    THEN n = a.m * (2 ^ a.e)
    ELSE n * (2 ^ (0 - a.e)) <= a.m /\ a.m < (n + 1) * (2 ^ (0 - a.e))

IsIntegral(a) == a.e >= 0

IntegerOf(a) == a.m * (2 ^ a.e)

C10_LowerPixel ==
    rpc = "indices" =>
        \A i \in 1..Len(is_vector(r_x)) :
            /\ IsIntegral(RowReal(i)) => r_rowcol[1][i] = IntegerOf(RowReal(i)) - 1
            /\ IsIntegral(ColReal(i)) => r_rowcol[2][i] = IntegerOf(ColReal(i)) - 1

\* C10 (amended): a point whose real-valued index along an axis is exactly
\* the integer k (the edge shared by pixels k-1 and k) resolves to pixel k,
\* the higher-index pixel of the two.
C10_BoundaryPixel ==
    rpc = "indices" =>
        \A i \in 1..Len(is_vector(r_x)) :
            /\ IsIntegral(RowReal(i)) => r_rowcol[1][i] = IntegerOf(RowReal(i))
            /\ IsIntegral(ColReal(i)) => r_rowcol[2][i] = IntegerOf(ColReal(i))

C10_Witness ==
    /\ rpc = "indices"
    /\ r_rows = <<>>
    /\ IsIntegral(RowReal(1))
    /\ ~ IsIntegral(ColReal(1))
    /\ r_rowcol[1][1] = IntegerOf(RowReal(1))
    /\ r_rowcol[1][1] < 0

\* C11: the index pair has the order of the literal pairs of test_raster.py:
\* its first element is the index that the forward affine multiplies by a
\* and d, its second element the index multiplied by b and e. So
\* rowcol_to_xy(p, q, A) is (a*p + b*q + c, d*p + e*q + f), and xy_to_rowcol
\* returns first the floor of the real-valued index that a and d multiply.
C11_TestPairOrder ==
    /\ (rpc = "coords" /\ r_rows # <<>>) =>
          /\ r_x.val[1] = FAdd(FAdd(FMul(r_affine[1], r_rows.val),
                                    FMul(r_affine[2], r_cols.val)), r_affine[3])
          /\ r_y.val[1] = FAdd(FAdd(FMul(r_affine[4], r_rows.val),
                                    FMul(r_affine[5], r_cols.val)), r_affine[6])
    /\ rpc = "indices" =>
          /\ IsFloorOf(r_rowcol[1][1], ColReal(1))
          /\ IsFloorOf(r_rowcol[2][1], RowReal(1))

\* Pixel arguments of rowcol_to_xy: scalars, and arrays of up to MaxVec elements.
MaxVec == 2

VecElems == {FromInt(0), FromInt(1)}

RECURSIVE Arrays(_)
Arrays(n) ==
    IF n = 0 THEN {<<>>}
    ELSE {Append(s, v) : s \in Arrays(n - 1), v \in VecElems}

\* Two arguments of rowcol_to_xy: two scalars, or two arrays of one length.
PixelArgs ==
    {<<Scalar(FromInt(r)), Scalar(FromInt(c))>> :
        r \in (0 - PixMax)..PixMax, c \in (0 - PixMax)..PixMax}
    \cup UNION {{<<Vector(rs), Vector(cs)>> : rs \in Arrays(n), cs \in Arrays(n)} :
                    n \in 1..MaxVec}

PInit ==
    /\ r_affine \in Affines
    /\ \E args \in PixelArgs : r_rows = args[1] /\ r_cols = args[2]
    /\ r_x = <<>> /\ r_y = <<>>
    /\ rpc = "pixels"
    /\ r_rowcol = <<>>
    /\ gdf = <<>> /\ seed_id = None /\ max_tries_arg = None /\ max_tries = None
    /\ line = <<>> /\ extra_geoms = <<>> /\ tries = 0 /\ success = 0
    /\ pc = "idle" /\ err = "none" /\ nfound = None
    /\ AlgoIdle /\ InterpIdle /\ PointIdle /\ OrthoIdle /\ ManagerIdle

PNext == RowcolToXy

PixelSpec == PInit /\ [][PNext]_vars

\* The input pairs of the call, a scalar being one pair.
NumPairs == IF r_rows.kind = "scalar" THEN 1 ELSE Len(r_rows.val)

RowAt(i) == IF r_rows.kind = "scalar" THEN r_rows.val ELSE r_rows.val[i]

ColAt(i) == IF r_cols.kind = "scalar" THEN r_cols.val ELSE r_cols.val[i]

SingularLinearPart(A) ==
    LET p == A[1].e + A[5].e
        q == A[2].e + A[4].e
        lo == Min(p, q)
    IN  A[1].m * A[5].m * (2 ^ (p - lo)) = A[2].m * A[4].m * (2 ^ (q - lo))

\* C13: whenever the 2x2 linear part (a, b; d, e) of the affine has
\* determinant zero, xy_to_rowcol fails with the invertibility error and
\* returns no index pair.
C13_SingularFails ==
    (rpc \in {"indices", "raised"} /\ SingularLinearPart(r_affine)) =>
        /\ rpc = "raised"
        /\ r_rowcol = <<>>

\* A singular linear part with no zero coefficient: a*e = b*d # 0.
C13_Witness ==
    /\ rpc = "raised"
    /\ r_rowcol = <<>>
    /\ SingularLinearPart(r_affine)
    /\ r_affine[1].m # 0
    /\ r_affine[2].m # 0
    /\ r_affine[1] # r_affine[2]

(***************************************************************************)
(* algo.average_slope and algo.compute_sinuosity, for a frame of one line  *)
(***************************************************************************)
NumPts == 4
MaxPts == 4
DemRows == 4
DemCols == 4

\* Coordinates a line is drawn from
PtPool ==
    << <<0, 0>>, <<1, 0>>, <<3, 3>>, <<8, 8>>, <<5, 5>>, <<0, 1>>, <<1, 1>>,
       <<-1, 0>>, <<2, 1>> >>

Pts == {PtPool[i] : i \in 1..NumPts}

\* The coordinate sequences of a LineString: two coordinates or more
RECURSIVE CoordSeqs(_)
CoordSeqs(n) ==
    IF n = 0 THEN {<<>>}
    ELSE {Append(s, p) : s \in CoordSeqs(n - 1), p \in Pts}

Lines == UNION {CoordSeqs(n) : n \in 2..MaxPts}

\* The digital elevation models: elevation as the column index (the hill of
\* test_average_slope), and a grid whose cells all differ.
Hill == [r \in 1..DemRows |-> [c \in 1..DemCols |-> c - 1]]

Ramp == [r \in 1..DemRows |-> [c \in 1..DemCols |-> (r - 1) * DemCols + c]]

Dems == {Hill, Ramp}

\* The affines of the grid: pixel = coordinate, north up (row 0 at the top,
\* as in test_average_slope), mirrored in both axes, and a degenerate one.
DemAffines ==
    { <<One, FromInt(0), FromInt(0), FromInt(0), One, FromInt(0)>>,
      <<One, FromInt(0), FromInt(0), FromInt(0), FNeg(One), FromInt(DemRows - 1)>>,
      <<FNeg(One), FromInt(0), FromInt(0), FromInt(0), FNeg(One), FromInt(0)>>,
      <<One, One, FromInt(0), One, One, FromInt(0)>> }

\* The keyword arguments absolute and as_pct: both left out (the call of
\* test_average_slope), or both given.
Keywords ==
    {<<"omitted", "omitted">>}
    \cup {<<p, q>> : p \in {"True", "False"}, q \in {"True", "False"}}

\* The value a keyword parameter is bound to (absolute=True, as_pct=True)
Bound(v, default) == IF v = "omitted" THEN default ELSE v = "True"

\* _get_nth_points_in_lines(gdf, 0) and _get_nth_points_in_lines(gdf, -1)
FirstCoord(l) == l[1]

LastCoord(l) == l[Len(l)]

\* The length of one edge, as GEOS computes it: sqrt(dx*dx + dy*dy)
EdgeLength(p, q) ==
    LET dx == FromInt(q[1] - p[1])
        dy == FromInt(q[2] - p[2])
    IN  FSqrt(FAdd(FMul(dx, dx), FMul(dy, dy)))

\* gdf['geometry'].length: the edge lengths added up in coordinate order
RECURSIVE LengthTo(_, _)
LengthTo(l, k) ==
    IF k <= 1 THEN FromInt(0)
    ELSE FAdd(LengthTo(l, k - 1), EdgeLength(l[k - 1], l[k]))

\* Faulty variant: the length of the last edge only.
Length_last(l) == EdgeLength(l[Len(l) - 1], l[Len(l)])

Length(l) == LengthTo(l, Len(l))

\* An index numpy accepts along an axis of n cells, and the cell it reads:
\* a negative index counts from the end.
IndexOk(i, n) == (0 - n) <= i /\ i < n

CellOf(i, n) == IF i < 0 THEN n + i ELSE i

\* dem[r, c]
DemAt(dem, r, c) ==
    dem[CellOf(r, Len(dem)) + 1][CellOf(c, Len(dem[1])) + 1]

\* The pair (row, col) of the arrays (rows, cols) of one element each
OnlyPair(rc) == <<rc[1][1], rc[2][1]>>

\* raster.xy_to_rowcol for the one coordinate p: the pair (row, col)
RowColOf(p, A) ==
    OnlyPair(xy_to_rowcol(Vector(<<FromInt(p[1])>>), Vector(<<FromInt(p[2])>>), A))

Raised(e) == [kind |-> e, val |-> <<>>]

Returned(v) == [kind |-> "ok", val |-> v]

\* numpy accepts the pair (row, col) as an index of dem
Accepts(dem, rc) == IndexOk(rc[1], Len(dem)) /\ IndexOk(rc[2], Len(dem[1]))

\* Faulty variant: the elevation drop, start minus end.
Rise_drop(dem, rc1, rc2) == DemAt(dem, rc1[1], rc1[2]) - DemAt(dem, rc2[1], rc2[2])

\* dem[r2, c2] - dem[r1, c1]
Rise(dem, rc1, rc2) == DemAt(dem, rc2[1], rc2[2]) - DemAt(dem, rc1[1], rc1[2])

\* Faulty variant: the absolute value is taken whatever the flag.
Signed_abs(slope, absolute) == NpAbs(slope)

\* if absolute: slope = numpy.abs(slope)
Signed(slope, absolute) == IF absolute THEN NpAbs(slope) ELSE slope

\* factor = 1; if as_pct: factor = 100; slope * factor
Scaled(slope, as_pct) == NpMul(slope, FromInt(IF as_pct THEN 100 ELSE 1))

\* Lines 52-60 of algo.py for the cells rc1 (start) and rc2 (end): IndexError
\* from the indexing, or the slope
SlopeBetween(dem, rc1, rc2, length, absolute, as_pct) ==
    IF ~ (Accepts(dem, rc1) /\ Accepts(dem, rc2)) THEN Raised("IndexError")
    ELSE Returned(Scaled(Signed(NpDiv(FromInt(Rise(dem, rc1, rc2)), length),
                                absolute), as_pct))

\* algo.average_slope for one line: the value returned, or the error raised
\* by ~Affine (xy_to_rowcol) or by the indexing dem[r, c].
average_slope(l, dem, A, absolute, as_pct) ==
    IF IsDegenerate(A) THEN Raised("TransformNotInvertibleError")
    ELSE SlopeBetween(dem, RowColOf(FirstCoord(l), A), RowColOf(LastCoord(l), A),
                      Length(l), absolute, as_pct)

\* Faulty variant: the straight-line distance over the path length.
compute_sinuosity_inverse(l) ==
    LET dx == FromInt(LastCoord(l)[1] - FirstCoord(l)[1])
        dy == FromInt(LastCoord(l)[2] - FirstCoord(l)[2])
        distance == FSqrt(FAdd(FMul(dx, dx), FMul(dy, dy)))
    IN  Returned(NpAbs(NpDiv(distance, Length(l))))

\* algo.compute_sinuosity for one line
compute_sinuosity(l) ==
    LET dx == FromInt(LastCoord(l)[1] - FirstCoord(l)[1])
        dy == FromInt(LastCoord(l)[2] - FirstCoord(l)[2])
        distance == FSqrt(FAdd(FMul(dx, dx), FMul(dy, dy)))
    IN  Returned(NpAbs(NpDiv(Length(l), distance)))

AInit ==
    /\ a_line \in Lines
    /\ \/ /\ a_dem \in Dems
          /\ a_affine \in DemAffines
          /\ \E kw \in Keywords : a_absolute = kw[1] /\ a_as_pct = kw[2]
          /\ apc = "average_slope"
       \/ /\ a_dem = <<>>
          /\ a_affine = <<>>
          /\ a_absolute = "omitted"
          /\ a_as_pct = "omitted"
          /\ apc = "compute_sinuosity"
    /\ a_out = <<>>
    /\ GlueIdle /\ RasterIdle /\ InterpIdle /\ PointIdle /\ OrthoIdle /\ ManagerIdle

\* average_slope(gdf, dem, dem_affine, absolute, as_pct) returns
AverageSlope ==
    /\ apc = "average_slope"
    /\ LET res == average_slope(a_line, a_dem, a_affine,
                                Bound(a_absolute, TRUE), Bound(a_as_pct, TRUE)) IN
         /\ res.kind = "ok"
         /\ a_out' = res.val
    /\ apc' = "slope"
    /\ UNCHANGED <<a_line, a_dem, a_affine, a_absolute, a_as_pct>>
    /\ UNCHANGED <<gvars, rvars, ivars, lvars, ovars, mvars>>

\* average_slope raises: nothing is returned
AverageSlopeRaise ==
    /\ apc = "average_slope"
    /\ LET res == average_slope(a_line, a_dem, a_affine,
                                Bound(a_absolute, TRUE), Bound(a_as_pct, TRUE)) IN
         /\ res.kind # "ok"
         /\ apc' = res.kind
    /\ UNCHANGED <<a_line, a_dem, a_affine, a_absolute, a_as_pct, a_out>>
    /\ UNCHANGED <<gvars, rvars, ivars, lvars, ovars, mvars>>

\* compute_sinuosity(gdf) returns
ComputeSinuosity ==
    /\ apc = "compute_sinuosity"
    /\ a_out' = compute_sinuosity(a_line).val
    /\ apc' = "sinuosity"
    /\ UNCHANGED <<a_line, a_dem, a_affine, a_absolute, a_as_pct>>
    /\ UNCHANGED <<gvars, rvars, ivars, lvars, ovars, mvars>>

ANext == AverageSlope \/ AverageSlopeRaise \/ ComputeSinuosity

AlgoSpec == AInit /\ [][ANext]_vars

(***************************************************************************)
(* Properties of average_slope and compute_sinuosity                       *)
(***************************************************************************)
\* The (row, col) resolved for a coordinate lies outside the grid.
OutsideGrid(p) ==
    LET rc == RowColOf(p, a_affine)
    IN  \/ rc[1] < 0 \/ rc[1] >= Len(a_dem)
        \/ rc[2] < 0 \/ rc[2] >= Len(a_dem[1])

SlopeCalled == apc \in {"slope", "IndexError", "TransformNotInvertibleError"}

\* C14: whenever the (row, col) resolved for the first or the last
\* coordinate of the line lies outside the grid (row < 0, col < 0,
\* row >= number of rows, col >= number of columns), average_slope fails
\* with an explicit error; it never returns a value read from another cell.
C14_OutOfGridFails ==
    (/\ SlopeCalled
     /\ ~ IsDegenerate(a_affine)
     /\ (OutsideGrid(FirstCoord(a_line)) \/ OutsideGrid(LastCoord(a_line)))) =>
        apc = "IndexError"

\* The elevation of the cell resolved for the last coordinate minus that of
\* the cell resolved for the first.
Climb ==
    LET s == RowColOf(FirstCoord(a_line), a_affine)
        t == RowColOf(LastCoord(a_line), a_affine)
    IN  DemAt(a_dem, t[1], t[2]) - DemAt(a_dem, s[1], s[2])

\* C15: average_slope returns (dem[row_end, col_end] - dem[row_start,
\* col_start]) / length(line) for the cells xy_to_rowcol resolves for the
\* last and the first coordinate; the absolute value is taken when absolute
\* is true (the default), before the scaling; the result is multiplied by
\* 100 when as_pct is true (the default) and by 1 otherwise.
C15_SlopeFormula ==
    apc = "slope" =>
        LET ratio == NpDiv(FromInt(Climb), Length(a_line))
            taken == IF a_absolute \in {"omitted", "True"}
                     THEN NpAbs(ratio) ELSE ratio
            scale == IF a_as_pct \in {"omitted", "True"} THEN 100 ELSE 1
        IN  a_out = NpMul(taken, FromInt(scale))

\* The call of test_average_slope, both keywords left out: a descent of
\* one cell along a line of length 1, as a positive percentage.
C15_Witness ==
    /\ apc = "slope"
    /\ a_absolute = "omitted"
    /\ a_as_pct = "omitted"
    /\ a_dem = Hill
    /\ Climb = -1
    /\ Length(a_line) = One
    /\ a_out = FromInt(100)

\* The line with its coordinates in the opposite order
Reversed(l) == [i \in 1..Len(l) |-> l[Len(l) + 1 - i]]

\* average_slope of the reversed line, for the same grid, affine and keywords
ReversedSlope ==
    average_slope(Reversed(a_line), a_dem, a_affine,
                  Bound(a_absolute, TRUE), Bound(a_as_pct, TRUE))

\* C16 as stated: with absolute=False, average_slope of the line reversed
\* end to end equals the negative of average_slope of the line.
C16_Symmetry ==
    (apc = "slope" /\ a_absolute = "False") =>
        /\ ReversedSlope.kind = "ok"
        /\ NpEq(ReversedSlope.val, FNeg(a_out))

\* C16 (amended): with absolute=False, for a line of positive length,
\* average_slope of the reversed line equals the negative of average_slope
\* of the line whenever the two lines have the same computed length; the
\* edge lengths are added in coordinate order, which gives the same length
\* for every line of at most three coordinates.
C16_SymmetryEqualLength ==
    (apc = "slope" /\ a_absolute = "False" /\ Length(a_line).m # 0) =>
        /\ ReversedSlope.kind = "ok"
        /\ Len(a_line) <= 3 => Length(Reversed(a_line)) = Length(a_line)
        /\ Length(Reversed(a_line)) = Length(a_line) =>
              NpEq(ReversedSlope.val, FNeg(a_out))

\* A descent over three edges whose lengths add up alike in both orders.
C16_Witness ==
    /\ apc = "slope"
    /\ a_absolute = "False"
    /\ Len(a_line) = 4
    /\ Reversed(a_line) # a_line
    /\ Length(Reversed(a_line)) = Length(a_line)
    /\ a_out.m < 0
    /\ ReversedSlope.val.m > 0

\* All the coordinates of the line are one point.
ZeroLength == \A i \in 1..Len(a_line) : a_line[i] = a_line[1]

\* C17 as stated: for a zero-length line (all of its coordinates identical)
\* average_slope and compute_sinuosity do not raise and return infinity.
C17_ZeroLengthInfinity ==
    (ZeroLength /\ apc \notin {"average_slope", "compute_sinuosity"}) =>
        /\ apc \in {"slope", "sinuosity"}
        /\ a_out \in {PosInf, NegInf}

\* C17 (amended): for a zero-length line compute_sinuosity does not raise
\* and returns NaN (0 / 0); average_slope raises only what it raises for
\* any line (a degenerate affine, an index numpy rejects) and otherwise
\* returns NaN, never an infinity.
C17_ZeroLengthNaN ==
    (ZeroLength /\ apc \notin {"average_slope", "compute_sinuosity"}) =>
        /\ (apc \in {"slope", "sinuosity"} => IsNaN(a_out))
        /\ (apc = "TransformNotInvertibleError" => IsDegenerate(a_affine))
        /\ (apc = "IndexError" =>
              ~ Accepts(a_dem, RowColOf(a_line[1], a_affine)))

\* The slope of a line of three identical coordinates inside the grid
C17_Witness ==
    /\ ZeroLength
    /\ Len(a_line) = 3
    /\ apc = "slope"
    /\ a_as_pct = "True"
    /\ IsNaN(a_out)

\* The straight-line distance between the first and the last coordinate
EndDistance ==
    EdgeLength(FirstCoord(a_line), LastCoord(a_line))

\* C18: compute_sinuosity returns the path length of the line divided by
\* the straight-line distance between its first and last coordinates; for a
\* closed loop of positive length (first coordinate equals last) it returns
\* positive infinity, and it raises nothing.
C18_Sinuosity ==
    apc = "sinuosity" =>
        /\ EndDistance.m # 0 => a_out = FDiv(Length(a_line), EndDistance)
        /\ (FirstCoord(a_line) = LastCoord(a_line) /\ Length(a_line).m > 0) =>
              a_out = PosInf

\* A closed triangle: positive length, first coordinate equal to the last.
C18_Witness ==
    /\ apc = "sinuosity"
    /\ Len(a_line) = 4
    /\ FirstCoord(a_line) = LastCoord(a_line)
    /\ a_line[2] # a_line[1]
    /\ a_line[3] # a_line[1]
    /\ a_line[3] # a_line[2]
    /\ a_out = PosInf

\* The line is straight: every edge points along the vector from the first
\* coordinate to the last, so the path length equals the endpoint distance.
Straight(l) ==
    LET dx == LastCoord(l)[1] - FirstCoord(l)[1]
        dy == LastCoord(l)[2] - FirstCoord(l)[2]
    IN  \A i \in 1..(Len(l) - 1) :
            LET ex == l[i + 1][1] - l[i][1]
                ey == l[i + 1][2] - l[i][2]
            IN  ex * dy - ey * dx = 0 /\ ex * dx + ey * dy >= 0

\* The rounding error of the quotient for a line of n edges: n + 4 roundings
\* of relative size 2^-Precision at most (two in each square root's
\* argument and root, n - 1 in the sum, one in the division).
Slack(l) == Len(l) + 3

AtLeastOneLess(a, k) == NpLeq(Norm(2 ^ Precision - k, 0 - Precision), a)

AtMostOnePlus(a, k) == NpLeq(a, Norm(2 ^ Precision + k, 0 - Precision))

\* C19 as stated: for a line whose first and last coordinates differ,
\* compute_sinuosity returns a value >= 1, equal to 1 exactly when the line
\* is straight.
C19_AtLeastOne ==
    (apc = "sinuosity" /\ FirstCoord(a_line) # LastCoord(a_line)) =>
        /\ NpLeq(One, a_out)
        /\ a_out = One <=> Straight(a_line)

\* C19 (amended): for a line whose first and last coordinates differ,
\* compute_sinuosity returns a finite value that is >= 1 up to the rounding
\* error of the computed length, distance and quotient: exactly 1 for a line
\* of one edge, between 1 - s and 1 + 2s for a straight line of several
\* edges, and at least 1 - s for any line, where s = (edges + 4) * 2^-p is
\* the error bound of p-bit arithmetic.
C19_AtLeastOneRounded ==
    (apc = "sinuosity" /\ FirstCoord(a_line) # LastCoord(a_line)) =>
        /\ IsFinite(a_out)
        /\ AtLeastOneLess(a_out, Slack(a_line))
        /\ Len(a_line) = 2 => a_out = One
        /\ Straight(a_line) => AtMostOnePlus(a_out, 2 * Slack(a_line))

\* A straight line of two unequal edges whose sinuosity is below 1.
C19_Witness ==
    /\ apc = "sinuosity"
    /\ Len(a_line) = 3
    /\ Straight(a_line)
    /\ a_line[2] # a_line[1]
    /\ a_line[3] # a_line[2]
    /\ a_out # One
    /\ NpLeq(a_out, One)

(***************************************************************************)
(* vector.interpolate_coord                                                *)
(***************************************************************************)
NumVerts == 4
MaxStep == 2

\* Vertices a polyline is drawn from: those of basic_xy (test_vector.py)
\* first, then vertices off its axes.
VertexPool ==
    << <<0, 0>>, <<1, 0>>, <<1, 3>>, <<5, 3>>, <<3, 1>>, <<2, 2>>, <<0, 4>> >>

Verts == {VertexPool[i] : i \in 1..NumVerts}

RECURSIVE VertexSeqs(_)
VertexSeqs(n) ==
    IF n = 0 THEN {<<>>}
    ELSE {Append(s, p) : s \in VertexSeqs(n - 1), p \in Verts}

\* The rows of df: the vertices of a polyline, two or more
Polylines == UNION {VertexSeqs(n) : n \in 2..MaxPts}

\* numpy.ceil as an integer
CeilInt(a) == 0 - AsInt(FFloor(FNeg(a)))

\* vector._linear_distance up to row k: the edge lengths added up row by
\* row (cumsum), the first row's NaN filled with 0
RECURSIVE DistTo(_, _, _)
DistTo(xs, ys, k) ==
    IF k <= 1 THEN <<FromInt(0)>>
    ELSE LET prev == DistTo(xs, ys, k - 1)
             dx == FromInt(xs[k] - xs[k - 1])
             dy == FromInt(ys[k] - ys[k - 1])
         IN  Append(prev, FAdd(prev[k - 1], FSqrt(FAdd(FMul(dx, dx), FMul(dy, dy)))))

linear_distance(xs, ys) == DistTo(xs, ys, Len(xs))

\* Faulty variant: the end point stop is included.
arange_closed(stop, step) ==
    LET n == AsInt(FFloor(FDiv(stop, FromInt(step)))) + 1
    IN  [k \in 1..n |-> FMul(FromInt(k - 1), FromInt(step))]

\* numpy.arange(0, stop, step): ceil(stop / step) values 0, step, 2*step, ...
arange(stop, step) ==
    LET n == CeilInt(FDiv(stop, FromInt(step)))
    IN  [k \in 1..n |-> FMul(FromInt(k - 1), FromInt(step))]

\* interpolate.interp1d(xp, fp)(x) for xp[1] <= x <= xp[Len(xp)], linear: the
\* last interval that starts at or before x, as numpy.interp finds it
interp1d(xp, fp, x) ==
    LET j == CHOOSE i \in 1..Len(xp) :
                 /\ NpLeq(xp[i], x)
                 /\ \A k \in (i + 1)..Len(xp) : ~ NpLeq(xp[k], x)
    IN  IF j = Len(xp) \/ xp[j] = x THEN FromInt(fp[j])
        ELSE LET slope == FDiv(FromInt(fp[j + 1] - fp[j]), FSub(xp[j + 1], xp[j]))
             IN  FAdd(FMul(slope, FSub(x, xp[j])), FromInt(fp[j]))

\* vector.interpolate_coord(df, xcol, ycol, step): the rows (d, x, y)
interpolate_coord(xs, ys, step) ==
    LET dist == linear_distance(xs, ys)
        d_ == arange(FFloor(dist[Len(dist)]), step)
    IN  [k \in 1..Len(d_) |->
            [d |-> d_[k],
             x |-> interp1d(dist, xs, d_[k]),
             y |-> interp1d(dist, ys, d_[k])]]

IInit ==
    /\ \E l \in Polylines :
          /\ i_x = [k \in 1..Len(l) |-> l[k][1]]
          /\ i_y = [k \in 1..Len(l) |-> l[k][2]]
    /\ i_step \in 1..MaxStep
    /\ i_out = <<>>
    /\ ipc = "interpolate_coord"
    /\ GlueIdle /\ RasterIdle /\ AlgoIdle /\ PointIdle /\ OrthoIdle /\ ManagerIdle

\* interpolate_coord(df, xcol, ycol, step) returns
InterpolateCoord ==
    /\ ipc = "interpolate_coord"
    /\ i_out' = interpolate_coord(i_x, i_y, i_step)
    /\ ipc' = "returned"
    /\ UNCHANGED <<i_x, i_y, i_step>>
    /\ UNCHANGED <<gvars, rvars, avars, lvars, ovars, mvars>>

INext == InterpolateCoord

InterpSpec == IInit /\ [][INext]_vars

(***************************************************************************)
(* Properties of interpolate_coord                                         *)
(***************************************************************************)
\* The number of multiples 0, step, 2*step, ... strictly below the integer n
MultiplesBelow(n, step) == Cardinality({k \in 0..n : k * step < n})

\* (x, y) of the row is the point at distance d on the edge from vertex j to
\* vertex j + 1, the vertices being at the distances dist: linear
\* interpolation between the two vertices.
OnEdgeAt(dist, j, row) ==
    IF dist[j] = row.d
    THEN row.x = FromInt(i_x[j]) /\ row.y = FromInt(i_y[j])
    ELSE LET run == FSub(row.d, dist[j])
             len == FSub(dist[j + 1], dist[j])
         IN  /\ row.x = FAdd(FMul(FDiv(FromInt(i_x[j + 1] - i_x[j]), len), run),
                             FromInt(i_x[j]))
             /\ row.y = FAdd(FMul(FDiv(FromInt(i_y[j + 1] - i_y[j]), len), run),
                             FromInt(i_y[j]))

\* C20: interpolate_coord returns one row for each distance d = 0, step,
\* 2*step, ... strictly below the floor of the polyline's total length, in
\* increasing order, and the (x, y) of a row is the point at arc-length d,
\* linearly interpolated between the two vertices that bracket d.
C20_Resampled ==
    ipc = "returned" =>
        LET dist == linear_distance(i_x, i_y)
            stop == FFloor(dist[Len(dist)])
        IN  /\ Len(i_out) = MultiplesBelow(AsInt(stop), i_step)
            /\ \A k \in 1..Len(i_out) :
                  /\ i_out[k].d = FromInt((k - 1) * i_step)
                  /\ k > 1 => (NpLeq(i_out[k - 1].d, i_out[k].d)
                               /\ i_out[k - 1].d # i_out[k].d)
                  /\ NpLeq(i_out[k].d, stop)
                  /\ i_out[k].d # stop
                  /\ \E j \in 1..(Len(dist) - 1) :
                        /\ NpLeq(dist[j], i_out[k].d)
                        /\ NpLeq(i_out[k].d, dist[j + 1])
                        /\ dist[j] # dist[j + 1]
                        /\ OnEdgeAt(dist, j, i_out[k])

\* The polyline of test_interpolate_coord, of length 8, with step 1: d = 0..7.
C20_Witness ==
    /\ ipc = "returned"
    /\ i_x = <<0, 1, 1, 5>>
    /\ i_y = <<0, 0, 3, 3>>
    /\ i_step = 1
    /\ [k \in 1..Len(i_out) |-> AsInt(i_out[k].d)] = <<0, 1, 2, 3, 4, 5, 6, 7>>
    /\ [k \in 1..Len(i_out) |-> i_out[k].x] =
          [k \in 1..8 |-> FromInt(<<0, 1, 1, 1, 1, 2, 3, 4>>[k])]
    /\ [k \in 1..Len(i_out) |-> i_out[k].y] =
          [k \in 1..8 |-> FromInt(<<0, 0, 1, 2, 3, 3, 3, 3>>[k])]

(***************************************************************************)
(* vector.line_to_point                                                    *)
(***************************************************************************)
NumIntervals == 4

\* The spacings interval_dist is drawn from: 1, 13/8, 2, 3, 5/4
IntervalPool ==
    << FromInt(1), [m |-> 13, e |-> -3], FromInt(2), FromInt(3),
       [m |-> 5, e |-> -2] >>

Intervals == {IntervalPool[i] : i \in 1..NumIntervals}

\* The values start + k * delta of an arange from 0, for k = 0 .. n - 1
RECURSIVE Multiples(_, _)
Multiples(step, n) ==
    IF n <= 0 THEN <<>>
    ELSE Append(Multiples(step, n - 1), FMul(FromInt(n - 1), step))

\* Faulty variant: the stop value is produced when it is a multiple of step.
float_arange_closed(stop, step) ==
    Multiples(step, AsInt(FFloor(FDiv(stop, step))) + 1)

\* numpy.arange(0, stop, step) for a float step > 0: ceil(stop / step) values
float_arange(stop, step) == Multiples(step, CeilInt(FDiv(stop, step)))

\* The point of the segment p0-p1 at the fraction frac of its length
\* (GEOS pointAlongSegmentByFraction)
PointAlong(p0, p1, frac) ==
    IF frac.m <= 0 THEN <<FromInt(p0[1]), FromInt(p0[2])>>
    ELSE IF NpLeq(One, frac) THEN <<FromInt(p1[1]), FromInt(p1[2])>>
    ELSE <<FAdd(FMul(FromInt(p1[1] - p0[1]), frac), FromInt(p0[1])),
           FAdd(FMul(FromInt(p1[2] - p0[2]), frac), FromInt(p0[2]))>>

\* The walk along the segments from segment j on, total being the length of
\* the segments before j: the point at the length d, or the end of the line
\* (GEOS LengthLocationMap.getLocationForward)
RECURSIVE InterpolateFrom(_, _, _, _)
InterpolateFrom(l, d, j, total) ==
    IF j >= Len(l) THEN PointAlong(l[Len(l)], l[Len(l)], One)
    ELSE IF ~ NpLeq(FAdd(total, EdgeLength(l[j], l[j + 1])), d)
    THEN PointAlong(l[j], l[j + 1],
                    FDiv(FSub(d, total), EdgeLength(l[j], l[j + 1])))
    ELSE InterpolateFrom(l, d, j + 1, FAdd(total, EdgeLength(l[j], l[j + 1])))

\* line_geom.interpolate(d) for d >= 0
interpolate(l, d) ==
    IF d.m <= 0 THEN PointAlong(l[1], l[1], FromInt(0))
    ELSE InterpolateFrom(l, d, 1, FromInt(0))

\* [line_geom.interpolate(d) for d in ds], the first k of them
RECURSIVE PointsAt(_, _, _)
PointsAt(l, ds, k) ==
    IF k = 0 THEN <<>>
    ELSE Append(PointsAt(l, ds, k - 1), interpolate(l, ds[k]))

\* vector.line_to_point(line_geom, interval_dist) for the positions ds
line_to_point(l, ds) == PointsAt(l, ds, Len(ds))

LInit ==
    /\ l_line \in Polylines
    /\ l_interval \in Intervals
    /\ l_d = <<>>
    /\ l_out = <<>>
    /\ lpc = "line_to_point"
    /\ GlueIdle /\ RasterIdle /\ AlgoIdle /\ InterpIdle /\ OrthoIdle /\ ManagerIdle

\* line_to_point(line_geom, interval_dist) returns
LineToPoint ==
    /\ lpc = "line_to_point"
    /\ l_d' = float_arange(Length(l_line), l_interval)
    /\ l_out' = line_to_point(l_line, l_d')
    /\ lpc' = "returned"
    /\ UNCHANGED <<l_line, l_interval>>
    /\ UNCHANGED <<gvars, rvars, avars, ivars, ovars, mvars>>

LNext == LineToPoint

PointSpec == LInit /\ [][LNext]_vars

(***************************************************************************)
(* Properties of line_to_point                                             *)
(***************************************************************************)
\* k * l_interval < length, in exact arithmetic
MultipleBelow(k, length) ==
    LET lo == Min(l_interval.e, length.e)
    IN  k * l_interval.m * (2 ^ (l_interval.e - lo)) < length.m * (2 ^ (length.e - lo))

\* The number of multiples 0, interval, 2*interval, ... strictly below the
\* length of the line (the intervals are 1 or more)
NumMultiplesBelow(length) ==
    Cardinality({k \in 0..(AsInt(length) + 1) : MultipleBelow(k, length)})

\* The position k is the k-th multiple of the interval, the point k is the
\* point of the line at that arc length, the positions strictly increase and
\* the first point is the start of the line.
PointsAtMultiples ==
    /\ Len(l_out) = Len(l_d)
    /\ \A k \in 1..Len(l_d) :
          /\ l_d[k] = FMul(FromInt(k - 1), l_interval)
          /\ l_out[k] = interpolate(l_line, l_d[k])
          /\ k > 1 => (NpLeq(l_d[k - 1], l_d[k]) /\ l_d[k - 1] # l_d[k])
    /\ Len(l_out) > 0 =>
          l_out[1] = <<FromInt(l_line[1][1]), FromInt(l_line[1][2])>>

\* C21 as stated: line_to_point returns the points at the positions
\* k * interval, k = 0, 1, 2, ..., strictly below the length of the line: one
\* point for each such multiple, the first at the start of the line, the
\* positions strictly increasing, none equal to or beyond the length.
C21_PositionsBelowLength ==
    lpc = "returned" =>
        LET length == Length(l_line)
        IN  /\ PointsAtMultiples
            /\ Len(l_out) = NumMultiplesBelow(length)
            /\ \A k \in 1..Len(l_d) : NpLeq(l_d[k], length) /\ l_d[k] # length

\* C21 (amended): line_to_point returns the points at the positions
\* k * interval (the rounded products), k = 0 .. n - 1, the first at the start
\* of the line, the positions strictly increasing and none beyond the length
\* of the line; a position can equal the length, and then the point is the
\* end of the line; n is the number of multiples strictly below the length,
\* or one less.
C21_PositionsUpToLength ==
    lpc = "returned" =>
        LET length == Length(l_line)
            below == NumMultiplesBelow(length)
            end == l_line[Len(l_line)]
        IN  /\ PointsAtMultiples
            /\ Len(l_out) <= below
            /\ Len(l_out) >= below - 1
            /\ length.m > 0 => Len(l_out) > 0
            /\ \A k \in 1..Len(l_d) :
                  /\ NpLeq(l_d[k], length)
                  /\ l_d[k] = length =>
                        l_out[k] = <<FromInt(end[1]), FromInt(end[2])>>

\* The line from (1, 0) to (5, 3), of length 5, sampled every 13/8: the
\* fourth position, 39/8, is rounded to 5 and the fourth point is the end.
C21_Witness ==
    /\ lpc = "returned"
    /\ l_line = << <<1, 0>>, <<5, 3>> >>
    /\ l_interval = [m |-> 13, e |-> -3]
    /\ Len(l_out) = 4
    /\ l_d[4] = FromInt(5)
    /\ l_out[1] = <<FromInt(1), FromInt(0)>>
    /\ l_out[4] = <<FromInt(5), FromInt(3)>>

(***************************************************************************)
(* vector.draw_ortho_line_to_bank                                          *)
(***************************************************************************)
MaxCenters == 3
MaxSearch == 2

\* The sampled center points ct_pt_geom: the first n of these
CenterPool == << <<0, 0>>, <<2, 0>>, <<2, 2>>, <<0, 2>>, <<4, 2>> >>

\* A bearing is a number of quarter turns clockwise from north: 0, pi/2, pi
\* and 3*pi/2. Its sine and cosine are taken as 0, 1 or -1 (the residue of
\* numpy.sin(numpy.pi), 1.2e-16, is left out).
Bearings == 0..3

Sin(b) == FromInt(<<0, 1, 0, -1>>[b + 1])

Cos(b) == FromInt(<<1, 0, -1, 0>>[b + 1])

\* (ortho_bearing - numpy.pi) % (2 * numpy.pi)
Opposite(b) == (b + 2) % 4

RECURSIVE BearingSeqs(_)
BearingSeqs(n) ==
    IF n = 0 THEN {<<>>}
    ELSE {Append(s, b) : s \in BearingSeqs(n - 1), b \in Bearings}

\* The bank geometries: the outline of the river surface around the center
\* points, and a bank far away to the north
Banks ==
    { << <<-1, -1>>, <<3, -1>>, <<3, 3>>, <<-1, 3>>, <<-1, -1>> >>,
      << <<-9, 9>>, <<9, 9>> >> }

\* The search steps: 1/2, 1, 2
Steps == {[m |-> 1, e |-> -1], FromInt(1), FromInt(2)}

Buffers == {FromInt(0), FromInt(1)}

\* Faulty variant: the first center point gets a transect too.
Indices_all(pts) == 0..(Len(pts) - 1)

\* range(1, len(ct_pt_geom))
Indices(pts) == 1..(Len(pts) - 1)

\* The indices the for loop has still to visit after the index i
Remaining(pts, i) == {j \in Indices(pts) : j > i}

NextIndex(pts, i) == CHOOSE j \in Remaining(pts, i) : \A k \in Remaining(pts, i) : j <= k

\* geometry.Point(start_pt.x + numpy.sin(b)*dist*step,
\*                start_pt.y + numpy.cos(b)*dist*step)
EndPoint(start, b, dist, step) ==
    <<FAdd(FromInt(start[1]), FMul(FMul(Sin(b), FromInt(dist)), step)),
      FAdd(FromInt(start[2]), FMul(FMul(Cos(b), FromInt(dist)), step))>>

\* geometry.Point(end_pt.x + numpy.sin(b)*buffer_dist,
\*                end_pt.y + numpy.cos(b)*buffer_dist)
Buffered(end, b, buffer) ==
    <<FAdd(end[1], FMul(Sin(b), buffer)), FAdd(end[2], FMul(Cos(b), buffer))>>

\* The least exponent of the coordinates of a point, 0 at most
LowExp(p) == Min(0, Min(p[1].e, p[2].e))

\* A point in units of 2^lo: integer coordinates
InUnits(p, lo) == <<p[1].m * (2 ^ (p[1].e - lo)), p[2].m * (2 ^ (p[2].e - lo))>>

IntPointInUnits(p, lo) == <<p[1] * (2 ^ (0 - lo)), p[2] * (2 ^ (0 - lo))>>

RECURSIVE LineInUnits(_, _, _)
LineInUnits(g, lo, k) ==
    IF k = 0 THEN <<>>
    ELSE Append(LineInUnits(g, lo, k - 1), IntPointInUnits(g[k], lo))

\* g.crosses(l) for two LineStrings: their interiors meet, in points only
Crosses(g, l) ==
    /\ \E e1 \in Edges(g), e2 \in Edges(l) :
          InteriorsMeet(e1, e2, Boundary(g) \cup Boundary(l))
    /\ ~ \E e1 \in Edges(g), e2 \in Edges(l) : EdgesOverlap(e1, e2)

\* geometry.LineString([start_pt, end_pt]).crosses(bank_geom)
RayCrosses(start, end, bank) ==
    Crosses(<<IntPointInUnits(start, LowExp(end)), InUnits(end, LowExp(end))>>,
            LineInUnits(bank, LowExp(end), Len(bank)))

\* Faulty variant: the search goes one step beyond max_dist.
WhileCond_more(start, end, bank, dist, max_dist) ==
    ~ RayCrosses(start, end, bank) /\ dist <= max_dist

\* while (ortho_line.crosses(bank_geom) == False) and (dist < max_dist)
WhileCond(start, end, bank, dist, max_dist) ==
    ~ RayCrosses(start, end, bank) /\ dist < max_dist

OInit ==
    /\ \E n \in 0..MaxCenters :
          /\ o_pts = SubSeq(CenterPool, 1, n)
          /\ o_bearing \in BearingSeqs(n)
    /\ o_bank \in Banks
    /\ o_step \in Steps
    /\ o_buffer \in Buffers
    /\ o_max_dist \in 1..MaxSearch
    /\ o_i = -1
    /\ o_dist = 0
    /\ o_end1 = <<>>
    /\ o_end2 = <<>>
    /\ o_out = <<>>
    /\ opc = "for"
    /\ GlueIdle /\ RasterIdle /\ AlgoIdle /\ InterpIdle /\ PointIdle /\ ManagerIdle

\* Lines 234-238: the next center point, the first end of its first ray
ForNext ==
    /\ opc = "for"
    /\ Remaining(o_pts, o_i) # {}
    /\ o_i' = NextIndex(o_pts, o_i)
    /\ o_dist' = 1
    /\ o_end1' = EndPoint(o_pts[o_i' + 1], o_bearing[o_i' + 1], 1, o_step)
    /\ opc' = "while1"
    /\ UNCHANGED <<o_pts, o_bearing, o_bank, o_step, o_buffer, o_max_dist,
                   o_end2, o_out>>
    /\ UNCHANGED <<gvars, rvars, avars, ivars, lvars, mvars>>

\* Lines 239-242: the first ray grows by one step
Grow1 ==
    /\ opc = "while1"
    /\ WhileCond(o_pts[o_i + 1], o_end1, o_bank, o_dist, o_max_dist)
    /\ o_dist' = o_dist + 1
    /\ o_end1' = EndPoint(o_pts[o_i + 1], o_bearing[o_i + 1], o_dist', o_step)
    /\ UNCHANGED <<o_pts, o_bearing, o_bank, o_step, o_buffer, o_max_dist, o_i,
                   o_end2, o_out, opc>>
    /\ UNCHANGED <<gvars, rvars, avars, ivars, lvars, mvars>>

\* Lines 243-248: the first ray is extended by the buffer, the second starts
Extend1 ==
    /\ opc = "while1"
    /\ ~ WhileCond(o_pts[o_i + 1], o_end1, o_bank, o_dist, o_max_dist)
    /\ o_end1' = Buffered(o_end1, o_bearing[o_i + 1], o_buffer)
    /\ o_dist' = 1
    /\ o_end2' = EndPoint(o_pts[o_i + 1], Opposite(o_bearing[o_i + 1]), 1, o_step)
    /\ opc' = "while2"
    /\ UNCHANGED <<o_pts, o_bearing, o_bank, o_step, o_buffer, o_max_dist, o_i,
                   o_out>>
    /\ UNCHANGED <<gvars, rvars, avars, ivars, lvars, mvars>>

\* Lines 249-252: the second ray grows by one step
Grow2 ==
    /\ opc = "while2"
    /\ WhileCond(o_pts[o_i + 1], o_end2, o_bank, o_dist, o_max_dist)
    /\ o_dist' = o_dist + 1
    /\ o_end2' = EndPoint(o_pts[o_i + 1], Opposite(o_bearing[o_i + 1]), o_dist',
                          o_step)
    /\ UNCHANGED <<o_pts, o_bearing, o_bank, o_step, o_buffer, o_max_dist, o_i,
                   o_end1, o_out, opc>>
    /\ UNCHANGED <<gvars, rvars, avars, ivars, lvars, mvars>>

\* Lines 253-257: the second ray is extended, the transect is appended
Extend2 ==
    /\ opc = "while2"
    /\ ~ WhileCond(o_pts[o_i + 1], o_end2, o_bank, o_dist, o_max_dist)
    /\ o_end2' = Buffered(o_end2, Opposite(o_bearing[o_i + 1]), o_buffer)
    /\ o_out' = Append(o_out, <<o_end1, o_end2'>>)
    /\ opc' = "for"
    /\ UNCHANGED <<o_pts, o_bearing, o_bank, o_step, o_buffer, o_max_dist, o_i,
                   o_dist, o_end1>>
    /\ UNCHANGED <<gvars, rvars, avars, ivars, lvars, mvars>>

\* Line 258: return ortho_ln_set
OrthoReturn ==
    /\ opc = "for"
    /\ Remaining(o_pts, o_i) = {}
    /\ opc' = "returned"
    /\ UNCHANGED <<o_pts, o_bearing, o_bank, o_step, o_buffer, o_max_dist, o_i,
                   o_dist, o_end1, o_end2, o_out>>
    /\ UNCHANGED <<gvars, rvars, avars, ivars, lvars, mvars>>

ONext == ForNext \/ Grow1 \/ Extend1 \/ Grow2 \/ Extend2 \/ OrthoReturn

OrthoSpec == OInit /\ [][ONext]_vars

(***************************************************************************)
(* Properties of draw_ortho_line_to_bank                                   *)
(***************************************************************************)
Searching == opc \in {"while1", "while2"}

\* The center point of the transect under construction
Center == o_pts[o_i + 1]

\* The end of the ray that is being grown
RayEnd == IF opc = "while1" THEN o_end1 ELSE o_end2

\* The distance from the center point to the end of the ray
Reach ==
    LET dx == FSub(RayEnd[1], FromInt(Center[1]))
        dy == FSub(RayEnd[2], FromInt(Center[2]))
    IN  FSqrt(FAdd(FMul(dx, dx), FMul(dy, dy)))

\* C22: each ray grows from its center point in increments of step until it
\* crosses the bank or max_dist is exceeded: it is never searched further
\* than max_dist from the center point, and a ray that stops without
\* crossing the bank ends, before the buffer is added, at the distance
\* max_dist from the center point.
C22_StopsAtMaxDistance ==
    Searching =>
        /\ Reach = FMul(FromInt(o_dist), o_step)
        /\ NpLeq(Reach, FromInt(o_max_dist))
        /\ (/\ ~ WhileCond(Center, RayEnd, o_bank, o_dist, o_max_dist)
            /\ ~ RayCrosses(Center, RayEnd, o_bank))
               => Reach = FromInt(o_max_dist)

\* The end of the ray from start along the bearing b when the search stops,
\* dist steps having been taken so far
RECURSIVE GrownRay(_, _, _)
GrownRay(start, b, dist) ==
    IF WhileCond(start, EndPoint(start, b, dist, o_step), o_bank, dist, o_max_dist)
    THEN GrownRay(start, b, dist + 1)
    ELSE EndPoint(start, b, dist, o_step)

\* The transect of the center point k (counted from 1): its two rays, each
\* extended by the buffer
TransectOf(k) ==
    <<Buffered(GrownRay(o_pts[k], o_bearing[k], 1), o_bearing[k], o_buffer),
      Buffered(GrownRay(o_pts[k], Opposite(o_bearing[k]), 1),
               Opposite(o_bearing[k]), o_buffer)>>

\* The center point k lies on the transect t
PassesThrough(t, k) ==
    LET lo == Min(LowExp(t[1]), LowExp(t[2]))
    IN  OnSeg(IntPointInUnits(o_pts[k], lo), InUnits(t[1], lo), InUnits(t[2], lo))

Managers == {"OverwriteState", "WorkSpace", "Extension", "core.Extension"}

\* The generator-based managers
Generators == {"OverwriteState", "WorkSpace", "Extension"}

\* Values passed as state, paths passed as path, extension names
StateArgs == {"True", "False", "1", "0"}

Paths == {"C:/Users", "C:/data"}

ExtensionNames == {"spatial", "tracking"}

ArgsOf(kind) ==
    IF kind = "OverwriteState" THEN StateArgs
    ELSE IF kind = "WorkSpace" THEN Paths
    ELSE ExtensionNames

\* bool(state)
Bool(v) == v \in {"True", "1"}

\* The number of calls of the arcpy function fn made for the name
CallsOf(calls, fn, name) ==
    Cardinality({k \in 1..Len(calls) : calls[k] = <<fn, name>>})

MInit ==
    /\ m_kind \in Managers
    /\ m_arg \in ArgsOf(m_kind)
    /\ overwriteOutput \in BOOLEAN
    /\ workspace \in Paths
    /\ m_available \in SUBSET ExtensionNames
    /\ m_calls = <<>>
    /\ m_orig = <<>>
    /\ m_baseline = <<overwriteOutput, workspace>>
    /\ m_exc = "none"
    /\ mpc = "with"
    /\ GlueIdle /\ RasterIdle /\ AlgoIdle /\ InterpIdle /\ PointIdle /\ OrthoIdle

\* mapping.py 74-76: OverwriteState up to its yield
EnterOverwriteState ==
    /\ mpc = "with" /\ m_kind = "OverwriteState"
    /\ m_orig' = <<overwriteOutput>>
    /\ overwriteOutput' = Bool(m_arg)
    /\ mpc' = "body"
    /\ UNCHANGED <<m_kind, m_arg, workspace, m_available, m_calls, m_baseline,
                   m_exc>>
    /\ UNCHANGED <<gvars, rvars, avars, ivars, lvars, ovars>>

\* mapping.py 77: the block ends normally, OverwriteState resumes after its yield
ExitOverwriteState ==
    /\ mpc = "body" /\ m_kind = "OverwriteState"
    /\ overwriteOutput' = m_orig[1]
    /\ mpc' = "left"
    /\ UNCHANGED <<m_kind, m_arg, workspace, m_available, m_calls, m_orig,
                   m_baseline, m_exc>>
    /\ UNCHANGED <<gvars, rvars, avars, ivars, lvars, ovars>>

\* mapping.py 106-108: WorkSpace up to its yield
EnterWorkSpace ==
    /\ mpc = "with" /\ m_kind = "WorkSpace"
    /\ m_orig' = <<workspace>>
    /\ workspace' = m_arg
    /\ mpc' = "body"
    /\ UNCHANGED <<m_kind, m_arg, overwriteOutput, m_available, m_calls,
                   m_baseline, m_exc>>
    /\ UNCHANGED <<gvars, rvars, avars, ivars, lvars, ovars>>

\* mapping.py 109: the block ends normally, WorkSpace resumes after its yield
ExitWorkSpace ==
    /\ mpc = "body" /\ m_kind = "WorkSpace"
    /\ workspace' = m_orig[1]
    /\ mpc' = "left"
    /\ UNCHANGED <<m_kind, m_arg, overwriteOutput, m_available, m_calls, m_orig,
                   m_baseline, m_exc>>
    /\ UNCHANGED <<gvars, rvars, avars, ivars, lvars, ovars>>

\* mapping.py 41-43: Extension up to its yield, the license being available
EnterExtension ==
    /\ mpc = "with" /\ m_kind = "Extension"
    /\ m_arg \in m_available
    /\ m_calls' = Append(m_calls, <<"CheckOutExtension", m_arg>>)
    /\ mpc' = "body"
    /\ UNCHANGED <<m_kind, m_arg, overwriteOutput, workspace, m_available,
                   m_orig, m_baseline, m_exc>>
    /\ UNCHANGED <<gvars, rvars, avars, ivars, lvars, ovars>>

\* mapping.py 44-45: the license is not available, the block is not entered
EnterExtensionRaise ==
    /\ mpc = "with" /\ m_kind = "Extension"
    /\ m_arg \notin m_available
    /\ m_exc' = "RuntimeError"
    /\ mpc' = "raised"
    /\ UNCHANGED <<m_kind, m_arg, overwriteOutput, workspace, m_available,
                   m_calls, m_orig, m_baseline>>
    /\ UNCHANGED <<gvars, rvars, avars, ivars, lvars, ovars>>

\* mapping.py 47: the block ends normally, Extension resumes after its yield
ExitExtension ==
    /\ mpc = "body" /\ m_kind = "Extension"
    /\ m_calls' = Append(m_calls, <<"CheckInExtension", m_arg>>)
    /\ mpc' = "left"
    /\ UNCHANGED <<m_kind, m_arg, overwriteOutput, workspace, m_available,
                   m_orig, m_baseline, m_exc>>
    /\ UNCHANGED <<gvars, rvars, avars, ivars, lvars, ovars>>

\* The block raises: contextlib throws the exception into the generator at
\* its yield (mapping.py 43, 76, 108); no handler encloses the yield, so the
\* generator ends there and the exception goes on to the caller.
GeneratorThrow ==
    /\ mpc = "body" /\ m_kind \in Generators
    /\ m_exc' = "BodyError"
    /\ mpc' = "left"
    /\ UNCHANGED <<m_kind, m_arg, overwriteOutput, workspace, m_available,
                   m_calls, m_orig, m_baseline>>
    /\ UNCHANGED <<gvars, rvars, avars, ivars, lvars, ovars>>

\* mapping/core.py 29-30: Extension.__enter__
EnterExtensionObject ==
    /\ mpc = "with" /\ m_kind = "core.Extension"
    /\ m_calls' = Append(m_calls, <<"CheckOutExtension", m_arg>>)
    /\ mpc' = "body"
    /\ UNCHANGED <<m_kind, m_arg, overwriteOutput, workspace, m_available,
                   m_orig, m_baseline, m_exc>>
    /\ UNCHANGED <<gvars, rvars, avars, ivars, lvars, ovars>>

\* mapping/core.py 32-33: Extension.__exit__, the block having ended normally
\* or raised; it returns None, so an exception goes on to the caller
ExitExtensionObject ==
    /\ mpc = "body" /\ m_kind = "core.Extension"
    /\ m_exc' \in {"none", "BodyError"}
    /\ m_calls' = Append(m_calls, <<"CheckOutExtension", m_arg>>)
    /\ mpc' = "left"
    /\ UNCHANGED <<m_kind, m_arg, overwriteOutput, workspace, m_available,
                   m_orig, m_baseline>>
    /\ UNCHANGED <<gvars, rvars, avars, ivars, lvars, ovars>>

MNext ==
    \/ EnterOverwriteState \/ ExitOverwriteState
    \/ EnterWorkSpace \/ ExitWorkSpace
    \/ EnterExtension \/ EnterExtensionRaise \/ ExitExtension
    \/ GeneratorThrow
    \/ EnterExtensionObject \/ ExitExtensionObject

ManagerSpec == MInit /\ [][MNext]_vars

(***************************************************************************)
(* Properties of the context managers                                      *)
(***************************************************************************)
\* C24: for OverwriteState and WorkSpace, inside the with-block the
\* environment variable has the requested value, and once the block is left,
\* by normal completion or by a raised exception, the environment has the
\* values it had before the block was entered.
C24_EnvironmentRestored ==
    m_kind \in {"OverwriteState", "WorkSpace"} =>
        /\ (mpc = "body" /\ m_kind = "OverwriteState") =>
              overwriteOutput = Bool(m_arg)
        /\ (mpc = "body" /\ m_kind = "WorkSpace") => workspace = m_arg
        /\ mpc = "left" => <<overwriteOutput, workspace>> = m_baseline

\* C25: for the two Extension managers, the named extension is checked out
\* on entry, and once the block is left, by normal completion or by a raised
\* exception, a check-in has been made for the same name: every check-out is
\* matched by a check-in.
C25_ExtensionCheckedIn ==
    m_kind \in {"Extension", "core.Extension"} =>
        /\ mpc = "body" => m_calls = << <<"CheckOutExtension", m_arg>> >>
        /\ mpc = "left" =>
              /\ CallsOf(m_calls, "CheckInExtension", m_arg) >= 1
              /\ CallsOf(m_calls, "CheckInExtension", m_arg) =
                    CallsOf(m_calls, "CheckOutExtension", m_arg)

(***************************************************************************)
(* Properties of the candidates of glue_lines_together                     *)
(***************************************************************************)
\* One pass of the loop of glue_lines_together is taken
LoopPass == pc = "loop" /\ tries' = tries + 1

\* An end of the line l (its first or its last coordinate) lies on g
AtAnEnd(g, l) ==
    \E F \in {l[1], l[Len(l)]}, e \in Edges(g) : OnSeg(F, e[1], e[2])

\* g and l share a point, and wherever an edge of one meets an edge of the
\* other they meet in a single point that is an end point of g or of l
MeetsOnlyAtEndPoints(g, l) ==
    /\ \E e1 \in Edges(g), e2 \in Edges(l) : EdgesIntersect(e1, e2)
    /\ \A e1 \in Edges(g), e2 \in Edges(l) :
          EdgesIntersect(e1, e2) =>
              /\ ~ EdgesOverlap(e1, e2)
              /\ \E F \in Boundary(g) \cup Boundary(l) :
                    OnSeg(F, e1[1], e1[2]) /\ OnSeg(F, e2[1], e2[2])

\* The pass acts on the candidates cand (positions in extra_geoms): it
\* raises with their number unless there is exactly one, which it appends to
\* the line and removes from the remaining segments.
ActsOn(cand) ==
    IF Cardinality(cand) # 1
    THEN pc' = "raised" /\ nfound' = Cardinality(cand)
    ELSE /\ pc' = "loop"
         /\ \E i \in cand :
               /\ line' = line \o extra_geoms[i].geometry
               /\ Ids(extra_geoms') = Ids(extra_geoms) \ {extra_geoms[i].id}

\* C26 as stated: at each pass of the loop the candidates are exactly the
\* remaining segments that touch the line at one of its ends; a segment that
\* touches the line only elsewhere is not counted.
C26_CandidatesAtEnd ==
    [][LoopPass =>
          ActsOn({i \in 1..Len(extra_geoms) :
                     /\ MeetsOnlyAtEndPoints(extra_geoms[i].geometry, line)
                     /\ AtAnEnd(extra_geoms[i].geometry, line)})]_vars

\* C26 (amended): at each pass of the loop the candidates are exactly the
\* remaining segments that touch the line anywhere: they share a point with
\* it and every point they share is an end point of the segment or an end of
\* the line. A segment whose end point lies on the line away from the line's
\* ends is a candidate.
C26_CandidatesTouch ==
    [][LoopPass =>
          ActsOn({i \in 1..Len(extra_geoms) :
                     MeetsOnlyAtEndPoints(extra_geoms[i].geometry, line)})]_vars

\* The seed (0, 0)-(2, 0) and the segment (1, 0)-(1, 1), which ends on the
\* middle of the seed and on neither of its ends: the segment was attached.
C26_Witness ==
    /\ pc = "returned"
    /\ Len(gdf) = 2
    /\ Loc(gdf, seed_id) = << <<0, 0>>, <<2, 0>> >>
    /\ success = 1
    /\ line = << <<0, 0>>, <<2, 0>>, <<1, 0>>, <<1, 1>> >>
    /\ extra_geoms = <<>>

\* The ids of the segments that make up the line: the seed and the attached
Attached == Ids(gdf) \ Ids(extra_geoms)

====
